---- MODULE Spec2Model ----
(***************************************************************************)
(* A model of the qpyr QR Code encoder: the GF(2^8) arithmetic, the        *)
(* Reed-Solomon encoder and the block splitter/interleaver of              *)
(* qrcode/reedsolomon.py, and the symbol matrix builder and data placer of *)
(* qrcode/draw.py.                                                          *)
(*                                                                         *)
(* Each component is one record-valued variable holding the arguments, the *)
(* locals and the position (pc) of one call.  A specification runs one     *)
(* component and leaves the others Idle.                                   *)
(***************************************************************************)
EXTENDS Integers, Sequences, FiniteSets, TLC

VARIABLES gf, raw, rs, ecc, dr

vars == <<gf, raw, rs, ecc, dr>>

Idle == [pc |-> "idle"]

\* The value of a variable that holds no result (Python: the call raised).
NoValue == "none"

(***************************************************************************)
(* Python integer operators on non-negative integers.                      *)
(***************************************************************************)
RECURSIVE XOR(_, _)
XOR(a, b) ==
    IF a = 0 THEN b
    ELSE IF b = 0 THEN a
    ELSE ((a + b) % 2) + 2 * XOR(a \div 2, b \div 2)

\* (y >> i) & 1
Bit(y, i) == (y \div (2 ^ i)) % 2

\* x >> 8 != 0, for any Python int x (negative x shifts to -1)
ShiftedOutOfByte(x) == x < 0 \/ x \div 256 # 0

(***************************************************************************)
(* 4.1 GF256 field: _reed_solomon_multiply                                 *)
(***************************************************************************)
\* The modulus of GF(2^8/0x11D).
FieldPoly == 285

\* One round of the Russian peasant loop with the x^8 term of the modulus lost.
multiply_round_low_poly(z, x, y, i) ==
    XOR(XOR(2 * z, (z \div 128) * (FieldPoly - 256)), Bit(y, i) * x)

\* One round of the loop: z = (z << 1) ^ ((z >> 7) * 0x11D); z ^= ((y >> i) & 1) * x
multiply_round(z, x, y, i) ==
    XOR(XOR(2 * z, (z \div 128) * FieldPoly), Bit(y, i) * x)

\* for i in reversed(range(8)), from round i down to round 0
RECURSIVE multiply_loop(_, _, _, _)
multiply_loop(z, x, y, i) ==
    IF i < 0 THEN z ELSE multiply_loop(multiply_round(z, x, y, i), x, y, i - 1)

\* _reed_solomon_multiply(x, y): the product, or the exception raised.
reed_solomon_multiply(x, y) ==
    IF ShiftedOutOfByte(x) \/ ShiftedOutOfByte(y) THEN "ValueError"
    ELSE LET z == multiply_loop(0, x, y, 7)
         IN  IF z \div 256 = 0 THEN z ELSE "AssertionError"

\* Operands are drawn from the bytes and OperandMargin values on either side.
OperandMargin == 1
Operands == (0 - OperandMargin)..(255 + OperandMargin)
Bytes == 0..255

GfInit ==
    /\ \E x \in Operands, y \in Operands :
           gf = [pc |-> "call", x |-> x, y |-> y, z |-> NoValue]
    /\ raw = Idle
    /\ rs = Idle
    /\ ecc = Idle
    /\ dr = Idle

\* A call of _reed_solomon_multiply(x, y): the range check, the loop, the assertion.
Multiply ==
    /\ gf.pc = "call"
    /\ gf' = IF ShiftedOutOfByte(gf.x) \/ ShiftedOutOfByte(gf.y)
             THEN [gf EXCEPT !.pc = "ValueError"]
             ELSE IF multiply_loop(0, gf.x, gf.y, 7) \div 256 # 0
             THEN [gf EXCEPT !.pc = "AssertionError"]
             ELSE [gf EXCEPT !.pc = "returned",
                             !.z = reed_solomon_multiply(gf.x, gf.y)]
    /\ UNCHANGED <<raw, rs, ecc, dr>>

SpecGF == GfInit /\ [][Multiply]_vars

(***************************************************************************)
(* 4.3 Capacity: _get_num_raw_data_modules                                 *)
(***************************************************************************)
MinVersion == 1
MaxVersion == 40
MinRawModules == 208
MaxRawModules == 29648

\* The closed form without the version >= 7 correction.
raw_data_modules_no_v7(v) ==
    LET base == (16 * v + 128) * v + 64
        numalign == v \div 7 + 2
    IN  IF v >= 2 THEN base - ((25 * numalign - 10) * numalign - 55) ELSE base

\* The value of result at the assertion, for a version in range.
raw_data_modules(v) ==
    LET base == (16 * v + 128) * v + 64
        numalign == v \div 7 + 2
        aligned == IF v >= 2 THEN base - ((25 * numalign - 10) * numalign - 55)
                   ELSE base
    IN  IF v >= 2 /\ v >= 7 THEN aligned - 36 ELSE aligned

\* Versions are drawn from [1,40] and VersionMargin values on either side.
VersionMargin == 10
ProbeVersions == (MinVersion - VersionMargin)..(MaxVersion + VersionMargin)

RawInit ==
    /\ \E v \in ProbeVersions : raw = [pc |-> "call", ver |-> v, result |-> NoValue]
    /\ gf = Idle
    /\ rs = Idle
    /\ ecc = Idle
    /\ dr = Idle

\* A call of _get_num_raw_data_modules(ver).
GetNumRawDataModules ==
    /\ raw.pc = "call"
    /\ raw' = IF ~(MinVersion <= raw.ver /\ raw.ver <= MaxVersion)
              THEN [raw EXCEPT !.pc = "ValueError"]
              ELSE LET result == raw_data_modules(raw.ver)
                   IN  IF MinRawModules <= result /\ result <= MaxRawModules
                       THEN [raw EXCEPT !.pc = "returned", !.result = result]
                       ELSE [raw EXCEPT !.pc = "AssertionError"]
    /\ UNCHANGED <<gf, rs, ecc, dr>>

SpecRaw == RawInit /\ [][GetNumRawDataModules]_vars

(***************************************************************************)
(* 4.2 Reed-Solomon encoder: _reed_solomon_compute_divisor and             *)
(* _reed_solomon_compute_remainder.  A bytearray is a sequence of bytes,   *)
(* Python index j being index j + 1 here.                                  *)
(***************************************************************************)
MinDegree == 1
MaxDivisorDegree == 255

\* bytearray([0] * n)
Zeros(n) == [j \in 1..n |-> 0]

\* One pass of the inner loop over j, multiplying the product by (x - root):
\* result[j] is multiplied by root and then XORed with the still old result[j + 1].
divisor_pass(result, root) ==
    [j \in 1..Len(result) |->
        IF j < Len(result)
        THEN XOR(reed_solomon_multiply(result[j], root), result[j + 1])
        ELSE reed_solomon_multiply(result[j], root)]

\* The root of the next pass with the update of root forgotten.
next_root_stuck(root) == root

\* root = _reed_solomon_multiply(root, 0x02)
next_root(root) == reed_solomon_multiply(root, 2)

\* The loop body with the shift of the remainder (pop and append) forgotten.
remainder_step_unshifted(result, b, divisor) ==
    LET factor == XOR(b, Head(result))
    IN  [i \in 1..Len(divisor) |->
            XOR(result[i], reed_solomon_multiply(divisor[i], factor))]

\* One iteration of the division loop for the data byte b:
\* factor = b ^ result.pop(0); result.append(0); result[i] ^= multiply(coef, factor)
remainder_step(result, b, divisor) ==
    LET factor == XOR(b, Head(result))
        shifted == Tail(result) \o <<0>>
    IN  [i \in 1..Len(divisor) |->
            XOR(shifted[i], reed_solomon_multiply(divisor[i], factor))]

\* Degrees 0..MaxDegree and data of up to MaxDataLen bytes out of DataBytes.
MaxDegree == 8
MaxDataLen == 3
DataBytes == {0, 1, 142, 255}
DataSeqs(n) == UNION {[1..m -> DataBytes] : m \in 0..n}

\* The frame of the two Reed-Solomon functions: degree and data are the
\* arguments, divisor and ecc the results, root, n and k the loop variables.
RsFrame(pc, degree, data) ==
    [pc |-> pc, degree |-> degree, data |-> data, divisor |-> NoValue,
     root |-> NoValue, n |-> 0, ecc |-> NoValue, k |-> 0]

RsInit ==
    /\ \E d \in 0..MaxDegree, data \in DataSeqs(MaxDataLen) :
           rs = RsFrame("call", d, data)
    /\ gf = Idle
    /\ raw = Idle
    /\ ecc = Idle
    /\ dr = Idle

\* _reed_solomon_compute_divisor(degree) up to its loop, in the frame f: the
\* range check, result = bytearray([0] * (degree - 1) + [1]), root = 1
divisor_call(f) ==
    IF ~(MinDegree <= f.degree /\ f.degree <= MaxDivisorDegree)
    THEN [f EXCEPT !.pc = "ValueError"]
    ELSE [f EXCEPT !.pc = "divisor_loop",
                   !.divisor = Zeros(f.degree - 1) \o <<1>>,
                   !.root = 1, !.n = 0]

DivisorCall ==
    /\ rs.pc = "call"
    /\ rs' = divisor_call(rs)
    /\ UNCHANGED <<gf, raw, ecc, dr>>

\* One iteration of `for _ in range(degree)`; the last one returns result.
InDivisorLoop == rs.pc = "divisor_loop" /\ rs.n < rs.degree

DivisorPass ==
    /\ InDivisorLoop
    /\ rs' = [rs EXCEPT !.divisor = divisor_pass(rs.divisor, rs.root),
                        !.root = next_root(rs.root),
                        !.n = rs.n + 1,
                        !.pc = IF rs.n + 1 = rs.degree THEN "divisor" ELSE "divisor_loop"]
    /\ UNCHANGED <<gf, raw, ecc, dr>>

\* _reed_solomon_compute_remainder(data, divisor) up to its loop, in the frame f
\* that holds the divisor: result = bytearray([0] * len(divisor)); empty data
\* returns it at once.
remainder_call(f, data) ==
    [f EXCEPT !.data = data, !.ecc = Zeros(Len(f.divisor)), !.k = 0,
              !.pc = IF Len(data) = 0 THEN "returned" ELSE "remainder_loop"]

RemainderCall ==
    /\ rs.pc = "divisor"
    /\ rs' = remainder_call(rs, rs.data)
    /\ UNCHANGED <<gf, raw, ecc, dr>>

\* One iteration of `for b in data`; the last one returns result.
InRemainderLoop == rs.pc = "remainder_loop" /\ rs.k < Len(rs.data)

RemainderStep ==
    /\ InRemainderLoop
    /\ rs' = [rs EXCEPT !.ecc = remainder_step(rs.ecc, rs.data[rs.k + 1], rs.divisor),
                        !.k = rs.k + 1,
                        !.pc = IF rs.k + 1 = Len(rs.data) THEN "returned"
                               ELSE "remainder_loop"]
    /\ UNCHANGED <<gf, raw, ecc, dr>>

RsNext == DivisorCall \/ DivisorPass \/ RemainderCall \/ RemainderStep

SpecRS == RsInit /\ [][RsNext]_vars

(***************************************************************************)
(* 4.3 Capacity tables of qrcode/static.py, indexed [ecl][version]: the    *)
(* per-block ECC codewords and the number of error correction blocks of    *)
(* the QR Code standard.                                                   *)
(***************************************************************************)
ECC_CODEWORDS_PER_BLOCK ==
    [ L |-> << 7, 10, 15, 20, 26, 18, 20, 24, 30, 18, 20, 24, 26, 30, 22, 24, 28, 30, 28, 28,
             28, 28, 30, 30, 26, 28, 30, 30, 30, 30, 30, 30, 30, 30, 30, 30, 30, 30, 30, 30 >>,
      M |-> << 10, 16, 26, 18, 24, 16, 18, 22, 22, 26, 30, 22, 22, 24, 24, 28, 28, 26, 26, 26,
             26, 28, 28, 28, 28, 28, 28, 28, 28, 28, 28, 28, 28, 28, 28, 28, 28, 28, 28, 28 >>,
      Q |-> << 13, 22, 18, 26, 18, 24, 18, 22, 20, 24, 28, 26, 24, 20, 30, 24, 28, 28, 26, 30,
             28, 30, 30, 30, 30, 28, 30, 30, 30, 30, 30, 30, 30, 30, 30, 30, 30, 30, 30, 30 >>,
      H |-> << 17, 28, 22, 16, 22, 28, 26, 26, 24, 28, 24, 28, 22, 24, 24, 30, 28, 28, 26, 28,
             30, 24, 30, 30, 30, 30, 30, 30, 30, 30, 30, 30, 30, 30, 30, 30, 30, 30, 30, 30 >> ]

NUM_ERROR_CORRECTION_BLOCKS ==
    [ L |-> << 1, 1, 1, 1, 1, 2, 2, 2, 2, 4, 4, 4, 4, 4, 6, 6, 6, 6, 7, 8,
             8, 9, 9, 10, 12, 12, 12, 13, 14, 15, 16, 17, 18, 19, 19, 20, 21, 22, 24, 25 >>,
      M |-> << 1, 1, 1, 2, 2, 4, 4, 4, 5, 5, 5, 8, 9, 9, 10, 10, 11, 13, 14, 16,
             17, 17, 18, 20, 21, 23, 25, 26, 28, 29, 31, 33, 35, 37, 38, 40, 43, 45, 47, 49 >>,
      Q |-> << 1, 1, 2, 2, 4, 4, 6, 6, 8, 8, 8, 10, 12, 16, 12, 17, 16, 18, 21, 20,
             23, 23, 25, 27, 29, 34, 34, 35, 38, 40, 43, 45, 48, 51, 53, 56, 59, 62, 65, 68 >>,
      H |-> << 1, 1, 2, 4, 4, 4, 5, 6, 8, 8, 11, 11, 16, 16, 18, 16, 19, 21, 25, 25,
             25, 34, 30, 32, 35, 37, 40, 42, 45, 48, 51, 54, 57, 60, 63, 66, 70, 74, 77, 81 >> ]

EccLevels == {"L", "M", "Q", "H"}

(***************************************************************************)
(* qrcode/utils.py: a bit string is a sequence of 0s and 1s, eight to a    *)
(* byte, the most significant bit first.                                   *)
(***************************************************************************)
bits_to_bytearray(bits) ==
    [n \in 1..(Len(bits) \div 8) |->
        LET b(m) == bits[8 * (n - 1) + m]
        IN  128 * b(1) + 64 * b(2) + 32 * b(3) + 16 * b(4)
            + 8 * b(5) + 4 * b(6) + 2 * b(7) + b(8)]

bytearray_to_bits(bytes) ==
    [n \in 1..(8 * Len(bytes)) |-> Bit(bytes[((n - 1) \div 8) + 1], 7 - ((n - 1) % 8))]

\* The data and the expected codewords of the regression test under __main__.
RegressionData ==
    << 0, 1, 0, 0, 0, 0, 0, 0,   0, 1, 0, 1, 0, 1, 1, 0,   1, 0, 0, 0, 0, 1, 1, 0,
       0, 1, 0, 1, 0, 1, 1, 0,   1, 1, 0, 0, 0, 1, 1, 0,   1, 1, 0, 0, 0, 1, 1, 0,
       1, 1, 1, 1, 0, 0, 0, 0,   1, 1, 1, 0, 1, 1, 0, 0,   0, 0, 0, 1, 0, 0, 0, 1,
       1, 1, 1, 0, 1, 1, 0, 0,   0, 0, 0, 1, 0, 0, 0, 1,   1, 1, 1, 0, 1, 1, 0, 0,
       0, 0, 0, 1, 0, 0, 0, 1,   1, 1, 1, 0, 1, 1, 0, 0,   0, 0, 0, 1, 0, 0, 0, 1,
       1, 1, 1, 0, 1, 1, 0, 0 >>

RegressionCodewords ==
    << 0, 1, 0, 0, 0, 0, 0, 0,   0, 1, 0, 1, 0, 1, 1, 0,   1, 0, 0, 0, 0, 1, 1, 0,
       0, 1, 0, 1, 0, 1, 1, 0,   1, 1, 0, 0, 0, 1, 1, 0,   1, 1, 0, 0, 0, 1, 1, 0,
       1, 1, 1, 1, 0, 0, 0, 0,   1, 1, 1, 0, 1, 1, 0, 0,   0, 0, 0, 1, 0, 0, 0, 1,
       1, 1, 1, 0, 1, 1, 0, 0,   0, 0, 0, 1, 0, 0, 0, 1,   1, 1, 1, 0, 1, 1, 0, 0,
       0, 0, 0, 1, 0, 0, 0, 1,   1, 1, 1, 0, 1, 1, 0, 0,   0, 0, 0, 1, 0, 0, 0, 1,
       1, 1, 1, 0, 1, 1, 0, 0,   0, 0, 0, 1, 0, 1, 1, 0,   0, 1, 0, 0, 1, 1, 1, 1,
       1, 1, 0, 1, 1, 1, 1, 1,   1, 1, 0, 1, 0, 1, 0, 0,   1, 0, 0, 0, 1, 1, 0, 0,
       0, 0, 0, 1, 0, 0, 0, 1,   1, 1, 0, 1, 0, 0, 0, 1,   0, 1, 0, 1, 1, 1, 0, 0,
       0, 0, 1, 0, 1, 1, 1, 1,   1, 0, 1, 1, 0, 1, 1, 1 >>

(***************************************************************************)
(* 4.4 Block splitter and interleaver: _add_ecc_and_interleave.  The two   *)
(* Reed-Solomon functions it calls run in the frame rs; blocks is the list *)
(* of blocks, i and j the loop variables, line the line that raised.       *)
(***************************************************************************)
\* data[k : k + n], k counted from 0: a slice stops at the end of data.
Slice(data, k, n) ==
    SubSeq(data, k + 1, IF k + n < Len(data) THEN k + n ELSE Len(data))

\* The length asked of block i: shortblocklen - blockecclen + (0 if i < numshortblocks else 1)
dat_len(e, i) == e.shortblocklen - e.blockecclen + (IF i < e.numshortblocks THEN 0 ELSE 1)

\* A block with the padding byte of a short block forgotten.
make_block_unpadded(dat, rsecc, short) == dat \o rsecc

\* if i < numshortblocks: dat.append(0); then dat + ecc
make_block(dat, rsecc, short) == IF short THEN Append(dat, 0) \o rsecc ELSE dat \o rsecc

\* The assertion after the split weakened to "data was not overrun".
split_consumed_at_most(k, data) == k <= Len(data)

\* assert k == len(data)
split_consumed(k, data) == k = Len(data)

\* The test of the interleave loop: (i != shortblocklen - blockecclen) or (j >= numshortblocks)
emits(e, i, j) == (i # e.shortblocklen - e.blockecclen) \/ (j >= e.numshortblocks)

\* Versions 1..MaxEccVersion; data of the exact capacity and up to LenSlack bytes
\* shorter or longer, in the byte patterns 0..MaxPattern, the regression data and
\* no data.
MaxEccVersion == 5
LenSlack == 1
MaxPattern == 0

DataPattern(p, n) == [m \in 1..n |-> (41 * (p + 1) + 7 * (2 * p + 3) * m) % 256]

\* The exact data capacity in bytes of a version and level.
RawCodewords(version) == raw_data_modules(version) \div 8
DataCapacity(version, ecl) ==
    RawCodewords(version)
        - NUM_ERROR_CORRECTION_BLOCKS[ecl][version] * ECC_CODEWORDS_PER_BLOCK[ecl][version]

\* The data a call is given: a set of byte sequences.
EccInputs(version, ecl) ==
    {DataPattern(p, n) : p \in 0..MaxPattern,
                         n \in (DataCapacity(version, ecl) - LenSlack)
                               ..(DataCapacity(version, ecl) + LenSlack)}
        \cup {bits_to_bytearray(RegressionData), <<>>}

EccInit ==
    /\ \E version \in 1..MaxEccVersion, ecl \in EccLevels :
           \E data \in EccInputs(version, ecl) :
               ecc = [pc |-> "call", version |-> version, ecl |-> ecl, data |-> data,
                      numblocks |-> 0, blockecclen |-> 0, rawcodewords |-> 0,
                      numshortblocks |-> 0, shortblocklen |-> 0,
                      blocks |-> <<>>, k |-> 0, i |-> 0, j |-> 0, dat |-> <<>>,
                      result |-> NoValue, line |-> 0]
    /\ gf = Idle
    /\ raw = Idle
    /\ rs = Idle
    /\ dr = Idle

\* Lines 75-84: the parameters, blocks = [], the call of
\* _reed_solomon_compute_divisor(blockecclen) up to its loop, k = 0.
EccCall ==
    /\ ecc.pc = "call"
    /\ LET numblocks == NUM_ERROR_CORRECTION_BLOCKS[ecc.ecl][ecc.version]
           blockecclen == ECC_CODEWORDS_PER_BLOCK[ecc.ecl][ecc.version]
           rawcodewords == raw_data_modules(ecc.version) \div 8
       IN  /\ ecc' = [ecc EXCEPT !.pc = "split",
                                 !.numblocks = numblocks,
                                 !.blockecclen = blockecclen,
                                 !.rawcodewords = rawcodewords,
                                 !.numshortblocks = numblocks - (rawcodewords % numblocks),
                                 !.shortblocklen = rawcodewords \div numblocks,
                                 !.blocks = <<>>, !.k = 0, !.i = 0]
           /\ rs' = divisor_call(RsFrame("call", blockecclen, <<>>))
    /\ UNCHANGED <<gf, raw, dr>>

\* Lines 86-88 of iteration i of the split loop, once the divisor (or the previous
\* remainder) has returned: slice dat, advance k, call
\* _reed_solomon_compute_remainder(dat, rsdiv) up to its loop.
AtSplit ==
    ecc.pc = "split" /\ rs.pc \in {"divisor", "returned"} /\ ecc.i < ecc.numblocks

SplitBlock ==
    /\ AtSplit
    /\ LET dat == Slice(ecc.data, ecc.k, dat_len(ecc, ecc.i))
       IN  /\ ecc' = [ecc EXCEPT !.pc = "remainder", !.dat = dat,
                                 !.k = ecc.k + Len(dat)]
           /\ rs' = remainder_call(rs, dat)
    /\ UNCHANGED <<gf, raw, dr>>

\* Lines 89-91 of iteration i, once the remainder has returned; after the last
\* block the loop ends at the assertion of line 92.
AtAppend == ecc.pc = "remainder" /\ rs.pc = "returned"

AppendBlock ==
    /\ AtAppend
    /\ ecc' = [ecc EXCEPT
                 !.blocks = Append(ecc.blocks,
                                   make_block(ecc.dat, rs.ecc, ecc.i < ecc.numshortblocks)),
                 !.i = ecc.i + 1,
                 !.pc = IF ecc.i + 1 = ecc.numblocks THEN "assert_split" ELSE "split"]
    /\ UNCHANGED <<gf, raw, rs, dr>>

\* Line 92, assert k == len(data), and line 95, result = bytearray().
AssertSplit ==
    /\ ecc.pc = "assert_split"
    /\ ecc' = IF split_consumed(ecc.k, ecc.data)
              THEN [ecc EXCEPT !.pc = "interleave", !.result = <<>>, !.i = 0, !.j = 0]
              ELSE [ecc EXCEPT !.pc = "AssertionError", !.line = 92]
    /\ UNCHANGED <<gf, raw, rs, dr>>

\* Lines 96-100 for one (i, j): blk[i] of block j is appended unless it is the
\* padding byte of a short block; blk[i] past the end of a block raises IndexError.
\* After block numblocks - 1 the loop moves to the next i, and ends at
\* i = len(blocks[0]).
Interleave ==
    /\ ecc.pc = "interleave"
    /\ ecc' = IF ecc.i >= Len(ecc.blocks[1])
              THEN [ecc EXCEPT !.pc = "assert_length"]
              ELSE LET blk == ecc.blocks[ecc.j + 1]
                       last == ecc.j + 1 = ecc.numblocks
                   IN  IF emits(ecc, ecc.i, ecc.j) /\ ecc.i >= Len(blk)
                       THEN [ecc EXCEPT !.pc = "IndexError", !.line = 100]
                       ELSE [ecc EXCEPT
                               !.result = IF emits(ecc, ecc.i, ecc.j)
                                          THEN Append(ecc.result, blk[ecc.i + 1])
                                          ELSE ecc.result,
                               !.j = IF last THEN 0 ELSE ecc.j + 1,
                               !.i = IF last THEN ecc.i + 1 ELSE ecc.i]
    /\ UNCHANGED <<gf, raw, rs, dr>>

\* Lines 101-102: assert len(result) == rawcodewords; return result.
AssertLength ==
    /\ ecc.pc = "assert_length"
    /\ ecc' = IF Len(ecc.result) = ecc.rawcodewords
              THEN [ecc EXCEPT !.pc = "returned"]
              ELSE [ecc EXCEPT !.pc = "AssertionError", !.line = 101]
    /\ UNCHANGED <<gf, raw, rs, dr>>

EccNext ==
    \/ EccCall \/ DivisorPass \/ SplitBlock \/ RemainderStep
    \/ AppendBlock \/ AssertSplit \/ Interleave \/ AssertLength

\* The guards of EccNext: some step of the call can be taken.  Every action is
\* its guard and an assignment, so this is when EccNext is enabled.
EccCanStep ==
    \/ ecc.pc \in {"call", "assert_split", "interleave", "assert_length"}
    \/ InDivisorLoop \/ AtSplit \/ InRemainderLoop \/ AtAppend

SpecEcc == EccInit /\ [][EccNext]_vars

(***************************************************************************)
(* 4.5 Symbol matrix builder and 4.6 data placer: qrcode/draw.py.  A grid  *)
(* is a function of the coordinates <<row, col>>, counted from 0; a        *)
(* CoordinateValueMap is a function of the coordinates it holds.           *)
(***************************************************************************)
WHITE == 0
BLACK == 1
DUMMY_VALUE == -2
\* The value np.full fills the grid with: a module not set yet.
UNSET == -1
\* The row an upward column pair starts at.
StartRow == 20

\* qrcode/utils.py
convert_to_grid_size(version) == 4 * version + 17

Coords(size) == (0..(size - 1)) \X (0..(size - 1))

\* {**a, **b}: the later dictionary wins.
Merge(a, b) == b @@ a

get_timing_pattern(grid_size) ==
    LET timing_pattern_row == [p \in {<<6, x>> : x \in 0..(grid_size - 1)} |->
                                  IF p[2] % 2 = 0 THEN BLACK ELSE WHITE]
        timing_pattern_col == [p \in {<<x, 6>> : x \in 0..(grid_size - 1)} |->
                                  IF p[1] % 2 = 0 THEN BLACK ELSE WHITE]
    IN  Merge(timing_pattern_row, timing_pattern_col)

create_row(fixed_row_index, col_start, col_end, value) ==
    [p \in {<<fixed_row_index, col>> : col \in col_start..(col_end - 1)} |-> value]

create_col(fixed_col_index, row_start, row_end, value) ==
    [p \in {<<row, fixed_col_index>> : row \in row_start..(row_end - 1)} |-> value]

finder_pattern_generator(row, col, grid_size) ==
    LET inside(x) == ~(x <= -1 \/ grid_size <= x)
        keys == {<<row + r, col + c>> : r \in {r \in -1..7 : inside(row + r)},
                                        c \in {c \in -1..7 : inside(col + c)}}
    IN  [p \in keys |->
            LET r == p[1] - row
                c == p[2] - col
            IN  IF \/ (0 <= r /\ r <= 6 /\ c \in {0, 6})
                   \/ (0 <= c /\ c <= 6 /\ r \in {0, 6})
                   \/ (2 <= r /\ r <= 4 /\ 2 <= c /\ c <= 4)
                THEN BLACK ELSE WHITE]

get_finder_patterns(grid_size) ==
    LET top_left == finder_pattern_generator(0, 0, grid_size)
        bottom_left == finder_pattern_generator(grid_size - 7, 0, grid_size)
        top_right == finder_pattern_generator(0, grid_size - 7, grid_size)
    IN  Merge(Merge(top_left, bottom_left), top_right)

get_seperator_pattern(grid_size) ==
    LET length == 8
        length_index == length - 1
        top_left_row == create_row(length_index, 0, length, WHITE)
        top_left_col == create_col(length_index, 0, length, WHITE)
        top_right_row == create_row(length_index, grid_size - length, grid_size, WHITE)
        top_right_col == create_col(grid_size - length, 0, length, WHITE)
        bottom_right_row == create_row(grid_size - length, 0, length, WHITE)
        bottom_right_col == create_col(length_index, grid_size - length, grid_size, WHITE)
    IN  Merge(Merge(Merge(Merge(Merge(top_left_row, top_left_col), top_right_row),
                          top_right_col), bottom_right_row), bottom_right_col)

get_dummy_format_information(grid_size) ==
    LET in_row == {<<8, col>> : col \in {c \in 0..(grid_size - 1) :
                                            (c <= 7) \/ (c >= grid_size - 8)}}
        in_col == {<<row, 8>> : row \in {r \in 0..(grid_size - 1) :
                                            r <= 8 \/ r >= grid_size - 8}}
        dummy == [p \in in_row \cup in_col |-> DUMMY_VALUE]
        dark == [p \in {<<grid_size - 8, 8>>} |-> BLACK]
    IN  Merge(dummy, dark)

\* grid[i] for a Python index i of an axis of length size: a negative index counts
\* from the end.
PyIndex(i, size) == IF i < 0 THEN i + size ELSE i

\* Whether grid[i][j] exists.
InGrid(i, j, size) ==
    /\ 0 - size <= i /\ i < size
    /\ 0 - size <= j /\ j < size

\* The module grid[row][col] names.
Cell(rc, size) == <<PyIndex(rc[1], size), PyIndex(rc[2], size)>>

\* override_grid(grid, indexes), every index being in the grid
override_grid(grid, indexes, size) ==
    LET keys == {Cell(q, size) : q \in DOMAIN indexes}
    IN  [p \in DOMAIN grid |-> IF p \in keys THEN indexes[p] ELSE grid[p]]

add_quiet_zone(grid, size) ==
    [p \in Coords(size + 2) |->
        IF p[1] \in 1..size /\ p[2] \in 1..size
        THEN grid[<<p[1] - 1, p[2] - 1>>]
        ELSE 0]

\* if up: row = 20
start_row(grid_size) == StartRow

\* iterate_over_grid(grid_size): the list result.  Element n (from 1) is appended
\* in pass p of `for column in range(grid_size - 1, 0, -2)`, iteration t of
\* `for _ in range(grid_size)` and as member s of (column, column - 1); up is
\* True in the even passes.
iterate_over_grid(grid_size) ==
    [n \in 1..((grid_size \div 2) * grid_size * 2) |->
        LET p == (n - 1) \div (2 * grid_size)
            t == ((n - 1) % (2 * grid_size)) \div 2
            s == (n - 1) % 2
            range_column == grid_size - 1 - 2 * p
            column == IF range_column <= 6 THEN range_column - 1 ELSE range_column
            up == p % 2 = 0
            row == IF up THEN start_row(grid_size) - t ELSE t
        IN  <<row, column - s>>]

\* grid[row][col] = binary_str[0] stores a character of the bit string in an
\* integer array: the array holds int("0") = 0 or int("1") = 1.
to_int(ch) == CASE ch = "0" -> 0 [] ch = "1" -> 1

\* The test of the placer with the check for an unset module lost.
writes_any(value) == TRUE

\* if grid[row][col] == -1
writes(value) == value = UNSET

\* Versions 1..MaxDrawVersion; bit strings of the raw data modules of the version,
\* of half as many bits, of one bit more and of no bits, in the patterns
\* 0..MaxBitPattern.
MaxDrawVersion == 2
MaxBitPattern == 1

BitPattern(q, len) ==
    [n \in 1..len |-> IF q = 0 THEN (IF n % 2 = 1 THEN "1" ELSE "0")
                      ELSE IF n % (q + 2) = 0 THEN "0" ELSE "1"]

DrawInputs(version) ==
    {BitPattern(q, len) : q \in 0..MaxBitPattern,
                          len \in {raw_data_modules(version),
                                   raw_data_modules(version) \div 2,
                                   raw_data_modules(version) + 1, 0}}

\* binary_string is the argument of draw, binary_str what get_data_pattern has left
\* of it, stamped the grid as get_data_pattern receives it.
DrawInit ==
    /\ \E version \in 1..MaxDrawVersion :
           \E bits \in DrawInputs(version) :
               dr = [pc |-> "call", version |-> version, binary_string |-> bits,
                     grid_size |-> 0, grid |-> NoValue, stamped |-> NoValue,
                     row_col_iter |-> <<>>, n |-> 0, binary_str |-> <<>>]
    /\ gf = Idle
    /\ raw = Idle
    /\ rs = Idle
    /\ ecc = Idle

\* Lines 223-234: grid_size and grid = np.full((grid_size, grid_size), -1).
DrawCall ==
    /\ dr.pc = "call"
    /\ LET grid_size == convert_to_grid_size(dr.version)
       IN  dr' = [dr EXCEPT !.pc = "dummy_format_information",
                            !.grid_size = grid_size,
                            !.grid = [p \in Coords(grid_size) |-> UNSET]]
    /\ UNCHANGED <<gf, raw, rs, ecc>>

\* grid = override_grid(grid, indexes) at pc, followed by the statement at next;
\* an index outside the grid raises IndexError.
Override(pc, indexes, next) ==
    /\ dr.pc = pc
    /\ dr' = IF \A q \in DOMAIN indexes : InGrid(q[1], q[2], dr.grid_size)
             THEN [dr EXCEPT !.pc = next,
                             !.grid = override_grid(dr.grid, indexes, dr.grid_size)]
             ELSE [dr EXCEPT !.pc = "IndexError"]
    /\ UNCHANGED <<gf, raw, rs, ecc>>

\* Line 236
OverrideDummyFormat ==
    Override("dummy_format_information",
             get_dummy_format_information(dr.grid_size), "timing_pattern")

\* Line 237
OverrideTiming ==
    Override("timing_pattern", get_timing_pattern(dr.grid_size), "finder_patterns")

\* Line 238
OverrideFinder ==
    Override("finder_patterns", get_finder_patterns(dr.grid_size), "seperator_pattern")

\* Line 239
OverrideSeperator ==
    Override("seperator_pattern", get_seperator_pattern(dr.grid_size), "get_data_pattern")

\* Line 242 and line 177: get_data_pattern(binary_string, grid, grid_size) is
\* called and builds row_col_iter.
GetDataPattern ==
    /\ dr.pc = "get_data_pattern"
    /\ dr' = [dr EXCEPT !.pc = "place",
                        !.stamped = dr.grid,
                        !.binary_str = dr.binary_string,
                        !.row_col_iter = iterate_over_grid(dr.grid_size),
                        !.n = 0]
    /\ UNCHANGED <<gf, raw, rs, ecc>>

\* Lines 178-186 for element n + 1 of row_col_iter: the loop ends when the list
\* or binary_str is exhausted; an unset module takes binary_str[0].
Place ==
    /\ dr.pc = "place"
    /\ dr' = IF dr.n >= Len(dr.row_col_iter) \/ Len(dr.binary_str) = 0
             THEN [dr EXCEPT !.pc = "add_quiet_zone"]
             ELSE LET rc == dr.row_col_iter[dr.n + 1]
                      cell == Cell(rc, dr.grid_size)
                  IN  IF ~InGrid(rc[1], rc[2], dr.grid_size)
                      THEN [dr EXCEPT !.pc = "IndexError"]
                      ELSE IF writes(dr.grid[cell])
                      THEN [dr EXCEPT !.grid[cell] = to_int(Head(dr.binary_str)),
                                      !.binary_str = Tail(dr.binary_str),
                                      !.n = dr.n + 1]
                      ELSE [dr EXCEPT !.n = dr.n + 1]
    /\ UNCHANGED <<gf, raw, rs, ecc>>

\* Line 244: grid = add_quiet_zone(grid), the last statement of draw.
AddQuietZone ==
    /\ dr.pc = "add_quiet_zone"
    /\ dr' = [dr EXCEPT !.pc = "done",
                        !.grid = add_quiet_zone(dr.grid, dr.grid_size)]
    /\ UNCHANGED <<gf, raw, rs, ecc>>

DrawNext ==
    \/ DrawCall \/ OverrideDummyFormat \/ OverrideTiming \/ OverrideFinder
    \/ OverrideSeperator \/ GetDataPattern \/ Place \/ AddQuietZone

SpecDraw == DrawInit /\ [][DrawNext]_vars

(***************************************************************************)
(* Claims                                                                  *)
(***************************************************************************)

\* C5: for all bytes x, y a call multiply(x, y) returns (no assertion, no range
\* error) a byte z with z = multiply(y, x), z = 0 when y = 0 and z = x when y = 1.
C5_MultiplyLaws ==
    (gf.pc \notin {"idle", "call"} /\ gf.x \in Bytes /\ gf.y \in Bytes) =>
        /\ gf.pc = "returned"
        /\ gf.z \in Bytes
        /\ gf.z = reed_solomon_multiply(gf.y, gf.x)
        /\ (gf.y = 0 => gf.z = 0)
        /\ (gf.y = 1 => gf.z = gf.x)

\* C5 witness: a product that needs the reduction, 0x80 * 0x02 = 0x1D.
C5_Witness == gf.pc = "returned" /\ gf.x = 128 /\ gf.y = 2 /\ gf.z = 29

\* C6: for a version in [1,40] the call returns a value in [208, 29648], 208 for
\* version 1 and 29648 for version 40; for any other version it raises the range
\* error and yields no value.
C6_RawDataModules ==
    (raw.pc \notin {"idle", "call"}) =>
        IF raw.ver \in MinVersion..MaxVersion
        THEN /\ raw.pc = "returned"
             /\ raw.result \in 208..29648
             /\ (raw.ver = 1 => raw.result = 208)
             /\ (raw.ver = 40 => raw.result = 29648)
        ELSE raw.pc = "ValueError" /\ raw.result = NoValue

\* C6 witness: the largest version has returned the upper end of the range.
C6_Witness == raw.pc = "returned" /\ raw.ver = 40 /\ raw.result = 29648

\* The value at x of the polynomial with the coefficients p, highest degree
\* first, over GF(2^8) (Horner's rule; addition is XOR).
RECURSIVE PolyEval(_, _, _, _)
PolyEval(p, x, n, acc) ==
    IF n > Len(p) THEN acc
    ELSE PolyEval(p, x, n + 1, XOR(reed_solomon_multiply(acc, x), p[n]))

\* 2^i in GF(2^8)
RECURSIVE Pow2(_)
Pow2(i) == IF i = 0 THEN 1 ELSE reed_solomon_multiply(Pow2(i - 1), 2)

\* C7: for a degree d in [1,255] the remainder of data by computeDivisor(d) has
\* length d, and the polynomial data followed by the remainder is 0 at every root
\* 2^i, i in [0, d): it is divisible by the product of the (x - 2^i).
C7_RemainderIsTrue ==
    (rs.pc = "returned") =>
        /\ rs.degree \in MinDegree..MaxDivisorDegree
        /\ Len(rs.divisor) = rs.degree
        /\ Len(rs.ecc) = rs.degree
        /\ \A i \in 0..(rs.degree - 1) :
              PolyEval(rs.data \o rs.ecc, Pow2(i), 1, 0) = 0

\* C7 witness: a remainder that is not zero, of degree 2 and three data bytes.
C7_Witness ==
    /\ rs.pc = "returned" /\ rs.degree = 2 /\ rs.data = <<1, 142, 255>>
    /\ rs.divisor = <<3, 2>>
    /\ \E j \in 1..2 : rs.ecc[j] # 0

\* The exact data capacity as the claims state it, from the tables and the
\* closed form.
ExactCapacity(version, ecl) ==
    LET numBlocks == NUM_ERROR_CORRECTION_BLOCKS[ecl][version]
        blockEccLen == ECC_CODEWORDS_PER_BLOCK[ecl][version]
        rawCodewords == raw_data_modules(version) \div 8
        numShortBlocks == numBlocks - (rawCodewords % numBlocks)
        shortBlockLen == rawCodewords \div numBlocks
    IN  numShortBlocks * (shortBlockLen - blockEccLen)
            + (numBlocks - numShortBlocks) * (shortBlockLen - blockEccLen + 1)

EccRaised == ecc.pc \in {"AssertionError", "IndexError"}

\* C2: with data of exactly the data capacity, addEccAndInterleave raises nothing
\* (neither assertion fires, no index is out of range), can always take its next
\* step until it returns, and returns rawDataModules(version) div 8 codewords.
ExactData == Len(ecc.data) = ExactCapacity(ecc.version, ecc.ecl)

C2_ExactCapacityReturns ==
    ExactData =>
        /\ ~EccRaised
        /\ (ecc.pc # "returned" => EccCanStep)
        /\ (ecc.pc = "returned" =>
                Len(ecc.result) = raw_data_modules(ecc.version) \div 8)

\* C2 witness: a symbol with two short and two long blocks (version 5, level Q)
\* has returned its 134 codewords.
C2_Witness ==
    /\ ecc.pc = "returned" /\ ecc.version = 5 /\ ecc.ecl = "Q"
    /\ ecc.numshortblocks = 2 /\ ecc.numblocks = 4
    /\ Len(ecc.data) = ExactCapacity(5, "Q")
    /\ Len(ecc.result) = 134

\* C3: for version 1, level M (one block, 10 ECC codewords, 16 data bytes) the
\* call returns the 16 data bytes in order followed by the 10 bytes that
\* computeRemainder returned for this data and the divisor of degree 10; for the
\* data of the regression test the result is the bit string the test asserts.
C3_SingleBlockRegression ==
    (ecc.pc = "returned" /\ ecc.version = 1 /\ ecc.ecl = "M") =>
        /\ ecc.numblocks = 1 /\ ecc.blockecclen = 10 /\ Len(ecc.data) = 16
        /\ rs.pc = "returned" /\ rs.degree = 10 /\ rs.data = ecc.data
        /\ Len(rs.divisor) = 10 /\ Len(rs.ecc) = 10
        /\ ecc.result = ecc.data \o rs.ecc
        /\ (ecc.data = bits_to_bytearray(RegressionData) =>
                bytearray_to_bits(ecc.result) = RegressionCodewords)

\* C3 witness: the regression data has been encoded at version 1, level M.
C3_Witness ==
    /\ ecc.pc = "returned" /\ ecc.version = 1 /\ ecc.ecl = "M"
    /\ ecc.data = bits_to_bytearray(RegressionData)
    /\ Len(ecc.result) = 26

\* C8: with data shorter or longer than the data capacity the call never returns:
\* it can always take its next step until it raises.  With longer data it raises at the assertion
\* that ends the split (line 92): the interleave loop is never entered and no
\* output byte exists.
C8_OffCapacityFails ==
    ~ExactData =>
        /\ ecc.pc # "returned"
        /\ (~EccRaised => EccCanStep)
        /\ (Len(ecc.data) > ExactCapacity(ecc.version, ecc.ecl) =>
                /\ ecc.pc \notin {"interleave", "assert_length", "IndexError"}
                /\ ecc.result = NoValue
                /\ (ecc.pc = "AssertionError" => ecc.line = 92))

\* C8 witness: data one byte too long has failed the assertion of line 92.
C8_Witness ==
    /\ ecc.pc = "AssertionError" /\ ecc.line = 92
    /\ Len(ecc.data) = ExactCapacity(ecc.version, ecc.ecl) + 1

\* C8, the other case: data too short has raised in the interleave step.
C8_WitnessShort ==
    /\ ecc.pc = "IndexError"
    /\ Len(ecc.data) < ExactCapacity(ecc.version, ecc.ecl)

\* ---- draw.py ----

\* The placer has left its loop: draw is about to add the quiet zone.
Placed == dr.pc = "add_quiet_zone"

\* The bits get_data_pattern has taken from the bit string so far.
Consumed == Len(dr.binary_string) - Len(dr.binary_str)

\* The module the m-th element of the traversal addresses.
Visited(m) == Cell(dr.row_col_iter[m], dr.grid_size)

\* How many of the first m elements of the traversal address a module that was
\* unset when get_data_pattern was called.
UnsetRank(m) ==
    Cardinality({j \in 1..m : dr.stamped[Visited(j)] = UNSET})

\* C1: when the function patterns are stamped and the placer has run with exactly
\* rawDataModules(version) bits, no module is left unset and the placer has
\* written exactly rawDataModules(version) modules.
C1_PlacerFillsGrid ==
    (Placed /\ Len(dr.binary_string) = raw_data_modules(dr.version)) =>
        /\ \A p \in DOMAIN dr.grid : dr.grid[p] # UNSET
        /\ Cardinality({p \in DOMAIN dr.grid : dr.grid[p] # dr.stamped[p]})
               = raw_data_modules(dr.version)

\* C4: the matrix draw ends with, quiet zone included, holds only Light and Dark:
\* no module is unset and none holds the placeholder for format information.
C4_FinalGridLightDark ==
    dr.pc = "done" => \A p \in DOMAIN dr.grid : dr.grid[p] \in {WHITE, BLACK}

\* C9: the traversal yields only coordinates inside the grid, visits every module
\* outside column 6 exactly once and none of column 6, takes the column pairs from
\* right to left with the right column first in each row, walks the rightmost pair
\* from the bottom row up to row 0 and reverses the direction on each next pair.
C9_ZigzagTraversal ==
    (dr.pc = "place" /\ dr.n = 0) =>
        LET size == dr.grid_size
            it == dr.row_col_iter
            pair(m) == (m - 1) \div (2 * size)
            step(m) == ((m - 1) % (2 * size)) \div 2
            right(m) == LET c == size - 1 - 2 * pair(m)
                        IN  IF c <= 6 THEN c - 1 ELSE c
        IN  /\ \A m \in DOMAIN it :
                   /\ it[m][1] \in 0..(size - 1)
                   /\ it[m][2] \in 0..(size - 1)
                   /\ it[m][2] # 6
            /\ \A p \in Coords(size) :
                   p[2] # 6 => Cardinality({m \in DOMAIN it : it[m] = p}) = 1
            /\ \A m \in DOMAIN it :
                   /\ it[m][2] = right(m) - ((m - 1) % 2)
                   /\ it[m][1] = IF pair(m) % 2 = 0 THEN size - 1 - step(m)
                                                    ELSE step(m)

\* C10: the placer changes only modules that are unset when it visits them. A
\* module stamped with a function pattern or a placeholder keeps its value in
\* every state of the placement and takes no bit, and the k-th unset module of the
\* traversal holds the k-th bit of the input, Dark for "1" and Light for "0".
C10_PlacerWritesOnlyUnset ==
    dr.pc \in {"place", "add_quiet_zone"} =>
        /\ \A p \in DOMAIN dr.grid :
               dr.stamped[p] # UNSET => dr.grid[p] = dr.stamped[p]
        /\ Consumed = UnsetRank(dr.n)
        /\ (dr.n > 0 /\ dr.stamped[Visited(dr.n)] = UNSET) =>
               dr.grid[Visited(dr.n)] =
                   IF dr.binary_string[Consumed] = "1" THEN BLACK ELSE WHITE
        /\ Placed =>
               \A m \in DOMAIN dr.row_col_iter :
                   dr.stamped[Visited(m)] = UNSET =>
                       LET k == UnsetRank(m)
                       IN  dr.grid[Visited(m)] =
                               IF k > Len(dr.binary_string) THEN UNSET
                               ELSE IF dr.binary_string[k] = "1" THEN BLACK
                               ELSE WHITE

\* The placer has passed function-pattern modules and written both a Dark and a
\* Light module, with bits left over.
C10_Witness ==
    /\ Placed
    /\ dr.version = 1
    /\ Len(dr.binary_string) = raw_data_modules(1) + 1
    /\ Len(dr.binary_str) = 1
    /\ dr.n = Len(dr.row_col_iter)
    /\ \E m \in 1..dr.n : dr.stamped[Visited(m)] \in {WHITE, BLACK, DUMMY_VALUE}
    /\ \E p \in DOMAIN dr.grid : dr.stamped[p] = UNSET /\ dr.grid[p] = BLACK
    /\ \E p \in DOMAIN dr.grid : dr.stamped[p] = UNSET /\ dr.grid[p] = WHITE

====
